---- MODULE Spec2Model ----
(***************************************************************************)
(* Feasibility What-If Simulator (src/app.py).                             *)
(*                                                                         *)
(* The script turns five slider values into a cash-flow series and three   *)
(* metrics (IRR, NPV, ROIC), runs two sweeps and a breakeven scan.         *)
(*                                                                         *)
(* Numbers.  A Python float carries num/den, the rational in lowest terms  *)
(* that its expression has in real arithmetic, and `how`, the operations   *)
(* that produced it; Double(x) carries those operations out in IEEE 754    *)
(* binary64 (each rounds to nearest, ties to even) and is the number the   *)
(* interpreter holds.                                                      *)
(* Percentages (loan_pct, wacc) are carried as integer percents, the value *)
(* the slider yields before the division by 100.  The discounting of       *)
(* lines 39-40 is computed in real arithmetic on num/den: the NPV is an    *)
(* exact fraction whose numerator exceeds 32 bits, so it is computed on    *)
(* arbitrary-precision integers.                                           *)
(***************************************************************************)
EXTENDS Integers, Sequences, FiniteSets, TLC

(***************************************************************************)
(* Bounds of the model.                                                    *)
(***************************************************************************)
MaxYears == 5

(***************************************************************************)
(* Integer helpers.                                                        *)
(***************************************************************************)
Abs(k) == IF k < 0 THEN -k ELSE k

Sign(k) == IF k < 0 THEN -1 ELSE IF k = 0 THEN 0 ELSE 1

RECURSIVE Gcd(_, _)
Gcd(a, b) == IF b = 0 THEN a ELSE Gcd(b, a % b)

RECURSIVE IsPow2(_)
IsPow2(k) == IF k = 1 THEN TRUE ELSE IF k < 1 \/ k % 2 # 0 THEN FALSE ELSE IsPow2(k \div 2)

(***************************************************************************)
(* Arbitrary-precision naturals: little-endian limbs in base Base, no      *)
(* leading zero limb; zero is the empty sequence.                          *)
(***************************************************************************)
Base == 100 * 100

RECURSIVE ToBig(_)
ToBig(k) == IF k = 0 THEN <<>> ELSE <<k % Base>> \o ToBig(k \div Base)

RECURSIVE Trim(_)
Trim(a) == IF a = <<>> THEN a
           ELSE IF a[Len(a)] = 0 THEN Trim(SubSeq(a, 1, Len(a) - 1)) ELSE a

Limb(a, i) == IF i <= Len(a) THEN a[i] ELSE 0

RECURSIVE BigAddFrom(_, _, _, _)
BigAddFrom(a, b, i, carry) ==
    IF i > Len(a) /\ i > Len(b)
    THEN (IF carry = 0 THEN <<>> ELSE <<carry>>)
    ELSE LET s == Limb(a, i) + Limb(b, i) + carry
         IN  <<s % Base>> \o BigAddFrom(a, b, i + 1, s \div Base)

BigAdd(a, b) == BigAddFrom(a, b, 1, 0)

\* a - b for a >= b
RECURSIVE BigSubFrom(_, _, _, _)
BigSubFrom(a, b, i, borrow) ==
    IF i > Len(a) THEN <<>>
    ELSE LET d == Limb(a, i) - Limb(b, i) - borrow
         IN  IF d < 0 THEN <<d + Base>> \o BigSubFrom(a, b, i + 1, 1)
                      ELSE <<d>> \o BigSubFrom(a, b, i + 1, 0)

BigSub(a, b) == Trim(BigSubFrom(a, b, 1, 0))

RECURSIVE BigCmpFrom(_, _, _)
BigCmpFrom(a, b, i) ==
    IF i = 0 THEN 0
    ELSE IF a[i] # b[i] THEN Sign(a[i] - b[i])
    ELSE BigCmpFrom(a, b, i - 1)

BigCmp(a, b) ==
    IF Len(a) # Len(b) THEN Sign(Len(a) - Len(b)) ELSE BigCmpFrom(a, b, Len(a))

\* a * k for a machine integer 0 <= k < 200000 (so a limb's product fits)
RECURSIVE BigMulSmallFrom(_, _, _, _)
BigMulSmallFrom(a, k, i, carry) ==
    IF i > Len(a)
    THEN ToBig(carry)
    ELSE LET p == a[i] * k + carry
         IN  <<p % Base>> \o BigMulSmallFrom(a, k, i + 1, p \div Base)

BigMulSmall(a, k) == IF k = 0 THEN <<>> ELSE BigMulSmallFrom(a, k, 1, 0)

\* a * b, limb by limb of b
RECURSIVE BigMulFrom(_, _, _)
BigMulFrom(a, b, i) ==
    IF i > Len(b) THEN <<>>
    ELSE LET rest == BigMulFrom(a, b, i + 1)
         IN  BigAdd(BigMulSmall(a, b[i]), IF rest = <<>> THEN <<>> ELSE <<0>> \o rest)

BigMul(a, b) == IF a = <<>> THEN <<>> ELSE BigMulFrom(a, b, 1)

\* quotient and remainder of a by a machine integer 0 < k < 200000
RECURSIVE BigDivSmallFrom(_, _, _)
BigDivSmallFrom(a, k, i) ==
    IF i > Len(a) THEN [q |-> <<>>, r |-> 0]
    ELSE LET hi == BigDivSmallFrom(a, k, i + 1)
             cur == hi.r * Base + a[i]
         IN  [q |-> <<cur \div k>> \o hi.q, r |-> cur % k]

BigDivSmall(a, k) ==
    LET d == BigDivSmallFrom(a, k, 1) IN [q |-> Trim(d.q), r |-> d.r]

BigOdd(a) == a # <<>> /\ a[1] % 2 = 1

BigHalf(a) == BigDivSmall(a, 2).q

\* the machine integer a bignum of at most two limbs holds
BigToInt(a) == Limb(a, 1) + Base * Limb(a, 2)

(***************************************************************************)
(* Signed arbitrary-precision integers.                                    *)
(***************************************************************************)
SBig(s, m) == [sgn |-> IF m = <<>> THEN 0 ELSE s, mag |-> m]

SInt(k) == SBig(Sign(k), ToBig(Abs(k)))

SNeg(x) == SBig(-x.sgn, x.mag)

\* x * k for a machine integer k
SMulSmall(x, k) == SBig(x.sgn * Sign(k), BigMulSmall(x.mag, Abs(k)))

RECURSIVE STimesPow(_, _, _)
\* x * b^e
STimesPow(x, b, e) == IF e = 0 THEN x ELSE SMulSmall(STimesPow(x, b, e - 1), b)

SAdd(x, y) ==
    IF x.sgn = 0 THEN y
    ELSE IF y.sgn = 0 THEN x
    ELSE IF x.sgn = y.sgn THEN SBig(x.sgn, BigAdd(x.mag, y.mag))
    ELSE LET c == BigCmp(x.mag, y.mag)
         IN  IF c = 0 THEN SBig(0, <<>>)
             ELSE IF c > 0 THEN SBig(x.sgn, BigSub(x.mag, y.mag))
             ELSE SBig(y.sgn, BigSub(y.mag, x.mag))

\* sign of x - y
SCmp(x, y) == SAdd(x, SNeg(y)).sgn

(***************************************************************************)
(* IEEE 754 binary64 values: sgn * man * 2^exp with man odd; zero is sgn 0  *)
(* with man <<>>.  The values of this program are far from the overflow and *)
(* subnormal ranges.                                                        *)
(***************************************************************************)
\* 2^53 = 9007199254740992
Two53 == <<992, 5474, 1992, 9007>>

Dbl(s, m, e) ==
    IF m = <<>> THEN [sgn |-> 0, man |-> <<>>, exp |-> 0]
    ELSE [sgn |-> s, man |-> m, exp |-> e]

\* m * 2^k
RECURSIVE ShiftUp(_, _)
ShiftUp(m, k) ==
    IF k = 0 THEN m
    ELSE IF k >= 13 THEN ShiftUp(BigMulSmall(m, 8192), k - 13)
    ELSE ShiftUp(BigMulSmall(m, 2), k - 1)

\* scale p up by powers of two until p >= lim
RECURSIVE ScaleUp(_, _, _)
ScaleUp(p, lim, e) ==
    IF BigCmp(p, lim) >= 0 THEN [p |-> p, e |-> e]
    ELSE ScaleUp(BigMulSmall(p, 8192), lim, e - 13)

\* drop low bits until q < 2^53, keeping the last bit dropped (rnd) and
\* whether any bit below it was set (sticky)
RECURSIVE Shrink(_, _, _, _)
Shrink(q, rnd, sticky, e) ==
    IF BigCmp(q, Two53) < 0 THEN [q |-> q, rnd |-> rnd, sticky |-> sticky, e |-> e]
    ELSE Shrink(BigHalf(q), BigOdd(q), sticky \/ rnd, e + 1)

RECURSIVE Canon(_, _, _)
Canon(s, m, e) == IF BigOdd(m) THEN Dbl(s, m, e) ELSE Canon(s, BigHalf(m), e + 1)

\* the double nearest to s * (p / q) * 2^e, ties to even; 0 < q < 200000
Round53(s, p, q, e) ==
    IF p = <<>> \/ s = 0 THEN Dbl(0, <<>>, 0)
    ELSE LET up == ScaleUp(p, BigMulSmall(Two53, q), e)
             d == BigDivSmall(up.p, q)
             k == Shrink(d.q, FALSE, d.r # 0, up.e)
             m == IF k.rnd /\ (k.sticky \/ BigOdd(k.q)) THEN BigAdd(k.q, <<1>>) ELSE k.q
         IN  Canon(s, m, k.e)

\* k / 2^e for the largest power of two that divides k > 0
RECURSIVE OddPart(_, _)
OddPart(k, e) == IF k % 2 = 1 THEN [odd |-> k, exp |-> e] ELSE OddPart(k \div 2, e + 1)

\* float(k): a machine integer is held exactly
DInt(k) ==
    IF k = 0 THEN Dbl(0, <<>>, 0)
    ELSE LET o == OddPart(Abs(k), 0) IN Dbl(Sign(k), ToBig(o.odd), o.exp)

DNeg(a) == Dbl(-a.sgn, a.man, a.exp)

DAbs(a) == Dbl(Abs(a.sgn), a.man, a.exp)

DAdd(a, b) ==
    IF a.sgn = 0 THEN b
    ELSE IF b.sgn = 0 THEN a
    ELSE LET e == IF a.exp < b.exp THEN a.exp ELSE b.exp
             x == SBig(a.sgn, ShiftUp(a.man, a.exp - e))
             y == SBig(b.sgn, ShiftUp(b.man, b.exp - e))
             t == SAdd(x, y)
         IN  Round53(t.sgn, t.mag, 1, e)

DSub(a, b) == DAdd(a, DNeg(b))

DMul(a, b) == Round53(a.sgn * b.sgn, BigMul(a.man, b.man), 1, a.exp + b.exp)

\* a / b, b # 0; every divisor of this program (project_years, 100,
\* total_cost) has an odd part below 200000
DDiv(a, b) == Round53(a.sgn * b.sgn, a.man, BigToInt(b.man), a.exp - b.exp)

\* the sign of a - b
DCmp(a, b) == DSub(a, b).sgn

\* 2^e
DPow2(e) == Dbl(1, <<1>>, e)

(***************************************************************************)
(* The builtin sum over a list of floats.  CPython before 3.12 adds left    *)
(* to right, rounding each partial sum; from 3.12 on it keeps Neumaier's    *)
(* compensation term and adds it at the end.  The script pins no version.   *)
(***************************************************************************)
RECURSIVE PlainSum(_, _)
PlainSum(xs, n) == IF n = 0 THEN DInt(0) ELSE DAdd(PlainSum(xs, n - 1), xs[n])

RECURSIVE Compensated(_, _)
Compensated(xs, n) ==
    IF n = 0 THEN [hi |-> DInt(0), lo |-> DInt(0)]
    ELSE LET prev == Compensated(xs, n - 1)
             x == xs[n]
             t == DAdd(prev.hi, x)
             c == IF DCmp(DAbs(prev.hi), DAbs(x)) >= 0
                  THEN DAdd(DSub(prev.hi, t), x)
                  ELSE DAdd(DSub(x, t), prev.hi)
         IN  [hi |-> t, lo |-> DAdd(prev.lo, c)]

CompensatedSum(xs) == LET s == Compensated(xs, Len(xs)) IN DAdd(s.hi, s.lo)

\* the results sum(xs) can have, over the interpreters
PySums(xs) == {PlainSum(xs, Len(xs)), CompensatedSum(xs)}

(***************************************************************************)
(* Python floats: the rational num/den in lowest terms (den > 0) that real  *)
(* arithmetic gives, and the operations that produced the float.            *)
(***************************************************************************)
RECURSIVE Eval(_)
Eval(h) ==
    CASE h.op = "int" -> DInt(h.k)
      [] h.op = "neg" -> DNeg(Eval(h.a))
      [] h.op = "div" -> DDiv(Eval(h.a), Eval(h.b))
      [] h.op = "sub" -> DSub(Eval(h.a), Eval(h.b))
      [] h.op = "mul" -> DMul(Eval(h.a), Eval(h.b))

\* the double the interpreter holds for the float a
Double(a) == Eval(a.how)

Rat(num, den, h) ==
    LET g == Gcd(Abs(num), Abs(den))
        s == IF den < 0 THEN -1 ELSE 1
    IN  [num |-> s * (num \div g), den |-> s * (den \div g), how |-> h]

\* an int converted to float
FInt(k) == Rat(k, 1, [op |-> "int", k |-> k])

\* a / b on floats, b # 0
FDiv(a, b) ==
    Rat(a.num * b.den, a.den * b.num, [op |-> "div", a |-> a.how, b |-> b.how])

\* a - b on floats
FSub(a, b) ==
    Rat(a.num * b.den - b.num * a.den, a.den * b.den,
        [op |-> "sub", a |-> a.how, b |-> b.how])

\* a * b on floats
FMul(a, b) ==
    Rat(a.num * b.num, a.den * b.den, [op |-> "mul", a |-> a.how, b |-> b.how])

\* -a
FNeg(a) == [num |-> -a.num, den |-> a.den, how |-> [op |-> "neg", a |-> a.how]]

FSign(a) == Sign(a.num)

\* the double holds the real-arithmetic value
FExact(a) ==
    LET d == Double(a)
    IN  IF d.exp >= 0
        THEN a.den = 1 /\ SInt(a.num) = SBig(d.sgn, ShiftUp(d.man, d.exp))
        ELSE SMulSmall(SBig(d.sgn, d.man), a.den) =
                 SBig(Sign(a.num), ShiftUp(ToBig(Abs(a.num)), -d.exp))

(***************************************************************************)
(* Sums of floats, as exact fractions num / scale over a common             *)
(* denominator.                                                             *)
(***************************************************************************)
Lcm(a, b) == (a * b) \div Gcd(a, b)

RECURSIVE LcmFrom(_, _)
LcmFrom(cfs, i) == IF i > Len(cfs) THEN 1 ELSE Lcm(cfs[i].den, LcmFrom(cfs, i + 1))

\* the common denominator of a list of floats
CommonDen(cfs) == LcmFrom(cfs, 1)

\* cf * L as an integer, for L a multiple of cf.den
Scaled(cf, L) == SMulSmall(SInt(cf.num), L \div cf.den)

RECURSIVE SumFrom(_, _, _)
SumFrom(cfs, L, i) ==
    IF i > Len(cfs) THEN SInt(0)
    ELSE SAdd(Scaled(cfs[i], L), SumFrom(cfs, L, i + 1))

\* sum(cfs) as the mathematical sum of the ideal values: num / L
SeriesSum(cfs) == [num |-> SumFrom(cfs, CommonDen(cfs), 1), L |-> CommonDen(cfs)]

(***************************************************************************)
(* The program's constants (src/app.py, FIXED PARAMETERS).                  *)
(***************************************************************************)
area == 1000

\* sellable_pct = 0.6, in percent
sellable_pct == 60

dev_cost_per_sqm == 500

\* area * sellable_pct = 600.0, held exactly by a double
total_sellable_area == (area * sellable_pct) \div 100

comparison_prices == <<1000, 2000, 3000, 4000, 5000>>

\* wacc_values = [0.08, 0.1, 0.12, 0.14, 0.15], in percent
wacc_values == <<8, 10, 12, 14, 15>>

\* defaults of find_breakeven_price(start=1000, end=5000, step=50)
DefaultStart == 1000

DefaultEnd == 5000

DefaultStep == 50

NoneVal == [kind |-> "None"]

Some(v) == [kind |-> "some", of |-> v]

VARIABLES
    selling_price,      \* slider value, SAR/sqm
    land_price,         \* slider value, SAR/sqm
    loan_pct,           \* slider value in percent (the script divides by 100)
    wacc,               \* slider value in percent (the script divides by 100)
    project_years,      \* slider value
    npf_flat,           \* what the installed numpy_financial.irr returns for a
                        \* series whose periodic flows are all zero
    pc,                 \* position of the script / of the caller
    result,             \* (irr, npv, roic, net_cash_flows) of the last call of
                        \* simulate_financials, or what it raised
    metrics,            \* the three st.metric strings of the headline
    comparison_results, \* rows of the selling-price sweep
    sensitivity_results,\* rows of the WACC sweep
    scan,               \* the running call of find_breakeven_price
    breakeven,          \* what find_breakeven_price returned
    previous,           \* the call of find_breakeven_price before this one
    call                \* the arguments of a direct call of simulate_financials

vars == <<selling_price, land_price, loan_pct, wacc, project_years, npf_flat, pc,
          result, metrics, comparison_results, sensitivity_results, scan,
          breakeven, previous, call>>

(***************************************************************************)
(* numpy_financial.irr(values), by its contract: the rate at which the      *)
(* series' NPV is zero, nan when there is none.  The rate itself is kept    *)
(* symbolic (the series it is the root of) with its sign, which is the      *)
(* sign of the undiscounted sum for an outlay followed by inflows.          *)
(***************************************************************************)
IrrNaN == [kind |-> "nan", sgn |-> 0, root_of |-> <<>>]

IrrNum(s, cfs) == [kind |-> "num", sgn |-> s, root_of |-> cfs]

IRR(cfs) ==
    LET n == Len(cfs) - 1
        o == FSign(cfs[1])
        c == IF n >= 1 THEN FSign(cfs[2]) ELSE 0
        total == SeriesSum(cfs).num.sgn
    IN  IF n < 1 THEN IrrNaN
        ELSE IF o = 0 THEN IrrNaN
        ELSE IF c = o THEN IrrNaN
        ELSE IF c = 0
             THEN (IF npf_flat = "nan" THEN IrrNaN ELSE IrrNum(-1, cfs))
        ELSE IrrNum(IF o < 0 THEN total ELSE -total, cfs)

\* bool(irr): nan is truthy, 0.0 is falsy
IrrTruthy(irr) == irr.kind = "nan" \/ irr.sgn # 0

(***************************************************************************)
(* sum(cf / (1 + wacc) ** i for i, cf in enumerate(cfs)) with               *)
(* 1 + wacc = D / 100 and m = Len(cfs) - 1: the fraction                    *)
(*   (SUM_i cfs[i] * L * 100^(i-1) * D^(m-i+1)) / (L * D^m),  i = 1..m+1    *)
(* kept as its numerator num and the scale <<L, D, m>>.  The float the       *)
(* script holds differs from this fraction by rounding only (below 1e-6     *)
(* for the amounts of this program), far less than the smallest |NPV| the   *)
(* sliders and the scanned prices allow (above 164), so `npv >= 0` on the   *)
(* float is the sign of the fraction.                                       *)
(***************************************************************************)
RECURSIVE DiscountedUpTo(_, _, _, _)
DiscountedUpTo(cfs, D, L, i) ==
    \* SUM_{j<=i} cfs[j] * L * 100^(j-1) * D^(i-j)
    IF i = 1 THEN Scaled(cfs[1], L)
    ELSE SAdd(SMulSmall(DiscountedUpTo(cfs, D, L, i - 1), D),
              STimesPow(Scaled(cfs[i], L), 100, i - 1))

\* a sum that leaves the outlay out
NpvNoOutlay(cfs, w) ==
    LET L == CommonDen(cfs)
        zero == FInt(0)
    IN  [num |-> DiscountedUpTo([cfs EXCEPT ![1] = zero], 100 + w, L, Len(cfs)),
         L |-> L, D |-> 100 + w, m |-> Len(cfs) - 1]

\* lines 39-40: discounted_cf and npv
NPV(cfs, w) ==
    LET L == CommonDen(cfs)
    IN  [num |-> DiscountedUpTo(cfs, 100 + w, L, Len(cfs)),
         L |-> L, D |-> 100 + w, m |-> Len(cfs) - 1]

\* the sign of L * D^m, L > 0
ScaleSign(v) == IF v.D < 0 /\ v.m % 2 = 1 THEN -1 ELSE 1

NpvSign(v) == v.num.sgn * ScaleSign(v)

\* the sign of a - b for two NPVs at the same rate over the same periods
NpvCmp(a, b) == SCmp(SMulSmall(a.num, b.L), SMulSmall(b.num, a.L)) * ScaleSign(a)

(***************************************************************************)
(* simulate_financials(selling_price, land_price, loan_pct, wacc,           *)
(* project_years); loan and w are the percents whose hundredth is passed.   *)
(***************************************************************************)
\* a swapped subtraction
CashFlowsSwapped(equity, inflow, outflow, years) ==
    <<FNeg(equity)>> \o [i \in 1..years |-> FSub(outflow, inflow)]

\* a series whose outlay is entered as an inflow
CashFlowsOutlayPositive(equity, inflow, outflow, years) ==
    <<equity>> \o [i \in 1..years |-> FSub(inflow, outflow)]

\* one periodic flow too few
CashFlowsOneShort(equity, inflow, outflow, years) ==
    <<FNeg(equity)>> \o [i \in 1..(years - 1) |-> FSub(inflow, outflow)]

\* line 36: [-equity] + [annual_cash_inflow - annual_cash_outflow] * project_years
CashFlows(equity, inflow, outflow, years) ==
    <<FNeg(equity)>> \o [i \in 1..years |-> FSub(inflow, outflow)]

Raised(what) ==
    [raised |-> what, irr |-> NoneVal, npv |-> NoneVal, roic |-> NoneVal,
     net_cash_flows |-> <<>>]

simulate_financials(sp, lp, loan, w, years) ==
    LET revenue == FMul(FInt(sp), FInt(total_sellable_area))
        land_cost == lp * area
        development_cost == dev_cost_per_sqm * area
        total_cost == land_cost + development_cost
        loan_frac == FDiv(FInt(loan), FInt(100))
        equity == FMul(FInt(total_cost), FSub(FInt(1), loan_frac))
        annual_cash_inflow == FDiv(revenue, FInt(years))
        annual_cash_outflow == FDiv(FInt(total_cost), FInt(years))
        net_cash_flows == CashFlows(equity, annual_cash_inflow, annual_cash_outflow, years)
        \* line 41: revenue / total_cost if total_cost else 0
        roic == IF total_cost # 0 THEN FDiv(revenue, FInt(total_cost)) ELSE FInt(0)
    IN  IF years = 0 THEN Raised("ZeroDivisionError")
        ELSE IF 100 + w = 0 /\ Len(net_cash_flows) >= 2 THEN Raised("ZeroDivisionError")
        ELSE [raised |-> "none",
              irr |-> IRR(net_cash_flows),
              npv |-> NPV(net_cash_flows, w),
              roic |-> roic,
              net_cash_flows |-> net_cash_flows]

(***************************************************************************)
(* The slider positions the model explores (each slider's range is wider:   *)
(* src/app.py lines 14-18).                                                 *)
(***************************************************************************)
SellingPrices == {1000, 3500, 5000}

LandPrices == {2000, 2500, 3000, 3500}

LoanPcts == {70, 90}

Waccs == {8, 11}

Years == 1..MaxYears

Fresh ==
    /\ result = NoneVal
    /\ metrics = NoneVal
    /\ comparison_results = <<>>
    /\ sensitivity_results = <<>>
    /\ scan = NoneVal
    /\ breakeven = NoneVal
    /\ previous = NoneVal
    /\ call = NoneVal

\* the state when the script starts: the sliders are read, nothing is computed
Init ==
    /\ selling_price \in SellingPrices
    /\ land_price \in LandPrices
    /\ loan_pct \in LoanPcts
    /\ wacc \in Waccs
    /\ project_years \in Years
    /\ npf_flat \in {"nan", "minus_one"}
    /\ pc = "simulate"
    /\ Fresh

inputs == <<selling_price, land_price, loan_pct, wacc, project_years, npf_flat>>

\* value if value else None, then round(value, digits)
Cell(value, truthy, digits) ==
    IF truthy THEN [kind |-> "round", digits |-> digits, of |-> value] ELSE NoneVal

IrrCell(irr) == Cell(irr, IrrTruthy(irr), 2)

NpvCell(npv) == Cell(npv, NpvSign(npv) # 0, 0)

RoicCell(roic) == Cell(roic, FSign(roic) # 0, 2)

\* line 44: irr, npv, roic, net_cash_flows = simulate_financials(...)
Simulate ==
    /\ pc = "simulate"
    /\ result' = simulate_financials(selling_price, land_price, loan_pct, wacc, project_years)
    /\ pc' = IF result'.raised = "none" THEN "metrics" ELSE "crashed"
    /\ UNCHANGED <<inputs, metrics, comparison_results, sensitivity_results, scan,
                   breakeven, previous, call>>

\* f"{irr*100:.2f}%" if irr else "N/A"
IrrMetric(irr) ==
    IF ~IrrTruthy(irr) THEN [kind |-> "N/A", of |-> NoneVal]
    ELSE IF irr.kind = "nan" THEN [kind |-> "nan%", of |-> NoneVal]
    ELSE [kind |-> "percent", of |-> irr]

\* lines 48-50: the three st.metric calls
ShowMetrics ==
    /\ pc = "metrics"
    /\ metrics' = [irr |-> IrrMetric(result.irr),
                   npv |-> [kind |-> "SAR", of |-> result.npv],
                   roic |-> [kind |-> "x", of |-> result.roic]]
    /\ pc' = "comparison"
    /\ UNCHANGED <<inputs, result, comparison_results, sensitivity_results, scan,
                   breakeven, previous, call>>

\* a row that records the slider's price, not the candidate's
ComparisonRowOfSlider(price, r) ==
    [price |-> selling_price, irr |-> IrrCell(r.irr), npv |-> NpvCell(r.npv),
     roic |-> RoicCell(r.roic)]

\* lines 76-81: the row of one candidate
ComparisonRow(price, r) ==
    [price |-> price, irr |-> IrrCell(r.irr), npv |-> NpvCell(r.npv),
     roic |-> RoicCell(r.roic)]

\* lines 74-81: one iteration of the selling-price sweep
ComparisonStep ==
    /\ pc = "comparison"
    /\ LET price == comparison_prices[Len(comparison_results) + 1]
           r == simulate_financials(price, land_price, loan_pct, wacc, project_years)
       IN  IF r.raised # "none"
           THEN pc' = "crashed" /\ UNCHANGED comparison_results
           ELSE /\ comparison_results' = Append(comparison_results, ComparisonRow(price, r))
                /\ pc' = IF Len(comparison_results') = Len(comparison_prices)
                         THEN "sensitivity" ELSE "comparison"
    /\ UNCHANGED <<inputs, result, metrics, sensitivity_results, scan, breakeven, previous, call>>

\* round(wacc_val*100, 1): the percent itself
SensitivityRow(w, r) ==
    [wacc |-> [kind |-> "round", digits |-> 1, of |-> w], irr |-> IrrCell(r.irr),
     npv |-> NpvCell(r.npv)]

\* lines 102-108: one iteration of the WACC sweep
SensitivityStep ==
    /\ pc = "sensitivity"
    /\ LET w == wacc_values[Len(sensitivity_results) + 1]
           r == simulate_financials(selling_price, land_price, loan_pct, w, project_years)
       IN  IF r.raised # "none"
           THEN pc' = "crashed" /\ UNCHANGED sensitivity_results
           ELSE /\ sensitivity_results' = Append(sensitivity_results, SensitivityRow(w, r))
                /\ pc' = IF Len(sensitivity_results') = Len(wacc_values)
                         THEN "breakeven" ELSE "sensitivity"
    /\ UNCHANGED <<inputs, result, metrics, comparison_results, scan, breakeven, previous, call>>

(***************************************************************************)
(* find_breakeven_price(start, end, step): `scan` is the frame of the       *)
(* running call, scan.price the next value range(start, end + 1, step)      *)
(* yields, scan.evals the calls of simulate_financials made so far.         *)
(***************************************************************************)
\* a reversed comparison
FeasibleReversed(npv) == NpvSign(npv) <= 0

\* line 129: if npv >= 0
Feasible(npv) == NpvSign(npv) >= 0

\* a loop that stays on its candidate
AdvanceStuck(s) == [s EXCEPT !.evals = @ + 1]

\* line 127: the next value of range(start, end + 1, step)
Advance(s) == [s EXCEPT !.evals = @ + 1, !.price = @ + s.step]

NewScan(start, end, step) ==
    [start |-> start, end |-> end, step |-> step, price |-> start, evals |-> 0]

NotFound == [price |-> NoneVal, irr |-> NoneVal, npv |-> NoneVal]

\* line 133: breakeven_price, ... = find_breakeven_price()
BreakevenCall ==
    /\ pc = "breakeven"
    /\ scan' = NewScan(DefaultStart, DefaultEnd, DefaultStep)
    /\ pc' = "scanning"
    /\ UNCHANGED <<inputs, result, metrics, comparison_results, sensitivity_results,
                   breakeven, previous, call>>

\* lines 127-130: one iteration of the loop
ScanStep ==
    /\ pc = "scanning"
    /\ scan.price < scan.end + 1
    /\ LET r == simulate_financials(scan.price, land_price, loan_pct, wacc, project_years)
       IN  IF r.raised # "none"
           THEN /\ pc' = "crashed"
                /\ scan' = [scan EXCEPT !.evals = @ + 1]
                /\ UNCHANGED breakeven
           ELSE IF Feasible(r.npv)
           THEN /\ breakeven' = [price |-> Some(scan.price), irr |-> Some(r.irr),
                                npv |-> Some(r.npv)]
                /\ scan' = [scan EXCEPT !.evals = @ + 1]
                /\ pc' = "returned"
           ELSE /\ scan' = Advance(scan)
                /\ pc' = "scanning"
                /\ UNCHANGED breakeven
    /\ UNCHANGED <<inputs, result, metrics, comparison_results, sensitivity_results, previous, call>>

\* line 131: the range is exhausted
ScanExhausted ==
    /\ pc = "scanning"
    /\ ~(scan.price < scan.end + 1)
    /\ breakeven' = NotFound
    /\ pc' = "returned"
    /\ UNCHANGED <<inputs, result, metrics, comparison_results, sensitivity_results,
                   scan, previous, call>>

\* lines 135-138: st.success or st.error
ShowBreakeven ==
    /\ pc = "returned"
    /\ metrics' = [irr |-> metrics.irr, npv |-> metrics.npv, roic |-> metrics.roic,
                   breakeven |-> IF breakeven.price # NoneVal /\ breakeven.price # Some(0)
                                 THEN "success" ELSE "error"]
    /\ pc' = "done"
    /\ UNCHANGED <<inputs, result, comparison_results, sensitivity_results, scan,
                   breakeven, previous, call>>

\* the user moves a slider: Streamlit runs the script again from the top
Rerun ==
    /\ pc = "done"
    /\ selling_price' \in SellingPrices
    /\ land_price' \in LandPrices
    /\ loan_pct' \in LoanPcts
    /\ wacc' \in Waccs
    /\ project_years' \in Years
    /\ pc' = "simulate"
    /\ result' = NoneVal
    /\ metrics' = NoneVal
    /\ comparison_results' = <<>>
    /\ sensitivity_results' = <<>>
    /\ scan' = NoneVal
    /\ breakeven' = NoneVal
    /\ UNCHANGED <<npf_flat, previous, call>>

Next ==
    \/ Simulate
    \/ ShowMetrics
    \/ ComparisonStep
    \/ SensitivityStep
    \/ BreakevenCall
    \/ ScanStep
    \/ ScanExhausted
    \/ ShowBreakeven
    \/ Rerun

Spec == Init /\ [][Next]_vars

\* the run up to the end of the two sweeps (lines 44-108)
SweepStep ==
    \/ Simulate
    \/ ShowMetrics
    \/ ComparisonStep
    \/ SensitivityStep

\* SweepStep is enabled exactly while the script is before the end of the
\* second sweep
Sweeping == pc \in {"simulate", "metrics", "comparison", "sensitivity"}

\* The script runs synchronously: a statement that can run does run.  This is
\* WF_vars(SweepStep) with ENABLED <<SweepStep>>_vars written as Sweeping.
SweepFairness == []<>(~Sweeping) \/ []<><<SweepStep>>_vars

SweepSpec == Init /\ [][SweepStep]_vars /\ SweepFairness

(***************************************************************************)
(* The two functions called directly, as a test or another caller would:    *)
(* simulate_financials with arguments of its own, find_breakeven_price      *)
(* with start, end and step of its own (it reads the module's land_price,   *)
(* loan_pct, wacc and project_years).                                       *)
(***************************************************************************)
ArgSellingPrices == {1000, 3500, 5000}

ArgLandPrices == {-500, 2000, 2500, 3000}

ArgLoanPcts == {0, 70, 100}

ArgWaccs == {-100, 0, 11}

ArgYears == -1..MaxYears

ArgStarts == {1000, 4500}

ArgEnds == {4400, 5000}

ArgSteps == {50, 700}

\* simulate_financials reads total_sellable_area, area and dev_cost_per_sqm
\* of the module and none of the sliders
InitSim ==
    /\ selling_price = 3500
    /\ land_price = 3000
    /\ loan_pct = 70
    /\ wacc = 11
    /\ project_years = 5
    /\ npf_flat \in {"nan", "minus_one"}
    /\ pc = "idle"
    /\ Fresh

\* find_breakeven_price reads the module's land_price, loan_pct, wacc and
\* project_years
InitScan ==
    /\ selling_price = 3500
    /\ land_price \in {2000, 3000}
    /\ loan_pct = 90
    /\ wacc = 11
    /\ project_years \in Years
    /\ npf_flat \in {"nan", "minus_one"}
    /\ pc = "idle"
    /\ Fresh

CallSimulate ==
    /\ pc = "idle"
    /\ \E sp \in ArgSellingPrices, lp \in ArgLandPrices, loan \in ArgLoanPcts,
          w \in ArgWaccs, years \in ArgYears :
          /\ call' = [selling_price |-> sp, land_price |-> lp, loan_pct |-> loan,
                      wacc |-> w, project_years |-> years]
          /\ result' = simulate_financials(sp, lp, loan, w, years)
    /\ pc' = "called"
    /\ UNCHANGED <<inputs, metrics, comparison_results, sensitivity_results, scan,
                   breakeven, previous>>

\* the caller is done with what the call returned or raised
Discard ==
    /\ pc = "called"
    /\ call' = NoneVal
    /\ result' = NoneVal
    /\ pc' = "idle"
    /\ UNCHANGED <<inputs, metrics, comparison_results, sensitivity_results, scan,
                   breakeven, previous>>

CallFindBreakeven ==
    /\ pc \in {"idle", "returned"}
    /\ \E start \in ArgStarts, end \in ArgEnds, step \in ArgSteps :
          scan' = NewScan(start, end, step)
    /\ previous' = IF pc = "returned"
                   THEN [start |-> scan.start, end |-> scan.end, step |-> scan.step,
                         evals |-> scan.evals, breakeven |-> breakeven]
                   ELSE previous
    /\ breakeven' = NoneVal
    /\ result' = NoneVal
    /\ call' = NoneVal
    /\ pc' = "scanning"
    /\ UNCHANGED <<inputs, metrics, comparison_results, sensitivity_results>>

NextSim ==
    \/ CallSimulate
    \/ Discard

SimSpec == InitSim /\ [][NextSim]_vars

NextScan ==
    \/ CallFindBreakeven
    \/ ScanStep
    \/ ScanExhausted

ScanSpec == InitScan /\ [][NextScan]_vars

(***************************************************************************)
(* Properties of find_breakeven_price.                                      *)
(***************************************************************************)
\* the values range(start, end + 1, step) yields, step > 0
Candidates(s) ==
    IF s.start > s.end THEN {}
    ELSE {s.start + k * s.step : k \in 0..((s.end - s.start) \div s.step)}

\* simulate_financials at selling price p under the module's other assumptions
At(p) == simulate_financials(p, land_price, loan_pct, wacc, project_years)

Found == pc = "returned" /\ breakeven.price # NoneVal

\* C1: find_breakeven_price returns the first candidate of the ascending scan
\* whose NPV is >= 0, with the IRR and NPV computed at that price (every
\* earlier candidate has NPV < 0), and returns (None, None, None) exactly when
\* no candidate of the range has NPV >= 0.
C1_FirstFeasible ==
    pc = "returned" =>
        IF breakeven.price = NoneVal
        THEN /\ breakeven = NotFound
             /\ \A q \in Candidates(scan) : NpvSign(At(q).npv) < 0
        ELSE LET p == breakeven.price.of
             IN  /\ p \in Candidates(scan)
                 /\ NpvSign(At(p).npv) >= 0
                 /\ breakeven.irr = Some(At(p).irr)
                 /\ breakeven.npv = Some(At(p).npv)
                 /\ \A q \in Candidates(scan) : q < p => NpvSign(At(q).npv) < 0

\* a hit that follows at least one infeasible candidate
C1_Witness == Found /\ breakeven.price.of > scan.start

\* an exhausted range
C1_WitnessNotFound == pc = "returned" /\ breakeven = NotFound /\ scan.evals > 1

\* the number of values range(start, end + 1, step) yields
MaxEvals(s) == IF s.start > s.end THEN 0 ELSE (s.end - s.start) \div s.step + 1

SameArguments ==
    /\ previous # NoneVal
    /\ previous.start = scan.start
    /\ previous.end = scan.end
    /\ previous.step = scan.step

\* C9: for start <= end and step > 0 find_breakeven_price makes at most
\* floor((end - start) / step) + 1 evaluations of simulate_financials, none
\* after the first candidate with NPV >= 0 (a hit at the k-th candidate costs
\* exactly k evaluations), and a second call with the same arguments returns
\* the same result.
C9_BoundedDeterministic ==
    (pc \in {"scanning", "returned"} /\ scan.start <= scan.end) =>
        /\ scan.evals <= MaxEvals(scan)
        /\ Found => scan.evals = (breakeven.price.of - scan.start) \div scan.step + 1
        /\ (pc = "returned" /\ breakeven = NotFound) => scan.evals = MaxEvals(scan)
        /\ (pc = "returned" /\ SameArguments) =>
               /\ breakeven = previous.breakeven
               /\ scan.evals = previous.evals

\* a second call with the arguments of the first, both hitting after a miss
C9_Witness ==
    /\ Found
    /\ scan.start <= scan.end
    /\ SameArguments
    /\ scan.evals > 1

\* C10: for wacc >= 0 the NPV is non-decreasing in selling_price along the
\* scan, so the returned price is a threshold: every candidate at or above it
\* has NPV >= 0 and every candidate below it has NPV < 0.
C10_Threshold ==
    (pc = "returned" /\ wacc >= 0) =>
        /\ \A q \in Candidates(scan) :
               (q + scan.step) \in Candidates(scan) =>
                   NpvCmp(At(q + scan.step).npv, At(q).npv) >= 0
        /\ Found =>
               \A q \in Candidates(scan) :
                   IF q >= breakeven.price.of
                   THEN NpvSign(At(q).npv) >= 0
                   ELSE NpvSign(At(q).npv) < 0

\* a hit with candidates on both sides of it
C10_Witness ==
    /\ Found
    /\ wacc >= 0
    /\ \E q \in Candidates(scan) : q < breakeven.price.of
    /\ \E q \in Candidates(scan) : q > breakeven.price.of

(***************************************************************************)
(* Properties of simulate_financials, on its direct calls.                  *)
(***************************************************************************)
\* the call's assumptions are valid
ValidCall ==
    /\ pc = "called"
    /\ call.project_years >= 1
    /\ call.loan_pct \in 0..100
    /\ call.wacc > -100

RevenueOf(c) == c.selling_price * total_sellable_area

TotalCostOf(c) == (c.land_price + dev_cost_per_sqm) * area

\* C6: for valid assumptions the returned series has project_years + 1
\* elements, and its first element is negative whenever the initial outlay
\* total_cost * (1 - loan_pct) is positive.
C6_SeriesShape ==
    ValidCall =>
        /\ result.raised = "none"
        /\ Len(result.net_cash_flows) = call.project_years + 1
        /\ TotalCostOf(call) * (100 - call.loan_pct) > 0 =>
               FSign(result.net_cash_flows[1]) < 0

C6_Witness ==
    /\ ValidCall
    /\ call.project_years >= 2
    /\ TotalCostOf(call) * (100 - call.loan_pct) > 0

\* series[1:]
PeriodicFlows(cfs) == SubSeq(cfs, 2, Len(cfs))

AllIdentical(cfs) == \A i \in 1..Len(cfs) : cfs[i] = cfs[1]

\* the doubles of a list of floats
Doubles(cfs) == [i \in 1..Len(cfs) |-> Double(cfs[i])]

\* the real-arithmetic values of the flows sum to exactly total
SumsTo(cfs, total) ==
    LET sum == SeriesSum(cfs) IN sum.num = SMulSmall(SInt(total), sum.L)

\* |a - b| < 2^(-20), about one millionth
Close(a, b) == DCmp(DAbs(DSub(a, b)), DPow2(-20)) < 0

\* C7 as stated: the periodic flows are identical and
\* sum(cash_flow_series[1:]) == revenue - total_cost holds on the floats, for
\* every period count.
C7_ExactSum ==
    ValidCall =>
        LET flows == PeriodicFlows(result.net_cash_flows)
        IN  /\ AllIdentical(flows)
            /\ \A sum \in PySums(Doubles(flows)) :
                   sum = DInt(RevenueOf(call) - TotalCostOf(call))

\* C7 (amended): there are project_years periodic flows, all identical, each
\* standing for (revenue - total_cost) / project_years; their float sum is
\* within 2^(-20) of revenue - total_cost, and equals it when project_years
\* is a power of two.
C7_SumUpToRounding ==
    ValidCall =>
        LET flows == PeriodicFlows(result.net_cash_flows)
            net == RevenueOf(call) - TotalCostOf(call)
        IN  /\ result.raised = "none"
            /\ Len(flows) = call.project_years
            /\ AllIdentical(flows)
            /\ SumsTo(flows, net)
            /\ \A sum \in PySums(Doubles(flows)) :
                   /\ Close(sum, DInt(net))
                   /\ IsPow2(call.project_years) => sum = DInt(net)

\* three periods, the flow a rounded quotient, and a sum that misses
\* revenue - total_cost
C7_Witness ==
    /\ ValidCall
    /\ call.project_years = 3
    /\ ~FExact(result.net_cash_flows[2])
    /\ \E sum \in PySums(Doubles(PeriodicFlows(result.net_cash_flows))) :
           sum # DInt(RevenueOf(call) - TotalCostOf(call))

\* four periods: the flows are exact quotients
C7_WitnessExact ==
    /\ ValidCall
    /\ call.project_years = 4
    /\ RevenueOf(call) # TotalCostOf(call)
    /\ FExact(result.net_cash_flows[2])

NoSignChange(cfs) == \A i \in 1..Len(cfs) : FSign(cfs[i]) <= 0

\* C3 as stated: with total_cost = 0 simulate_financials reports ROIC as
\* undefined, never as the number 0.
C3_RoicUndefined ==
    (ValidCall /\ TotalCostOf(call) = 0) =>
        /\ result.raised = "none"
        /\ result.roic = NoneVal

\* C4 as stated: a call with project_years <= 0 or a discount rate <= -1 is
\* rejected as a validation failure: it neither raises ZeroDivisionError nor
\* returns.
C4_InvalidRejected ==
    (pc = "called" /\ (call.project_years <= 0 \/ call.wacc <= -100)) =>
        result.raised = "ValidationError"

(***************************************************************************)
(* Properties of the script's run.                                          *)
(***************************************************************************)
Computed == pc \notin {"simulate", "crashed"} /\ result # NoneVal

\* C2 as stated: when the series has no sign change the IRR is the undefined
\* sentinel, the headline shows "N/A", and the IRR cell of each such sweep
\* row is None while its other cells are populated.
C2_UndefinedIrrIsExplicit ==
    /\ (Computed /\ NoSignChange(result.net_cash_flows)) => result.irr = NoneVal
    /\ (Computed /\ metrics # NoneVal /\ NoSignChange(result.net_cash_flows)) =>
           metrics.irr.kind = "N/A"
    /\ \A i \in 1..Len(comparison_results) :
           NoSignChange(At(comparison_prices[i]).net_cash_flows) =>
               /\ comparison_results[i].irr = NoneVal
               /\ comparison_results[i].npv # NoneVal
               /\ comparison_results[i].roic # NoneVal
    /\ \A i \in 1..Len(sensitivity_results) :
           NoSignChange(At(selling_price).net_cash_flows) =>
               /\ sensitivity_results[i].irr = NoneVal
               /\ sensitivity_results[i].npv # NoneVal

AfterComparison == {"sensitivity", "breakeven", "scanning", "returned", "done"}

AfterSensitivity == {"breakeven", "scanning", "returned", "done"}

SweepRows ==
    /\ pc # "crashed"
    /\ Len(comparison_results) <= Len(comparison_prices)
    /\ pc \in AfterComparison => Len(comparison_results) = Len(comparison_prices)
    /\ \A i \in 1..Len(comparison_results) :
           LET r == At(comparison_prices[i])
           IN  /\ comparison_results[i].price = comparison_prices[i]
               /\ comparison_results[i].irr = IrrCell(r.irr)
               /\ comparison_results[i].npv = NpvCell(r.npv)
               /\ comparison_results[i].roic = RoicCell(r.roic)
    /\ Len(sensitivity_results) <= Len(wacc_values)
    /\ pc \in AfterSensitivity => Len(sensitivity_results) = Len(wacc_values)
    /\ \A i \in 1..Len(sensitivity_results) :
           LET r == simulate_financials(selling_price, land_price, loan_pct,
                                        wacc_values[i], project_years)
           IN  /\ sensitivity_results[i].wacc.of = wacc_values[i]
               /\ sensitivity_results[i].irr = IrrCell(r.irr)
               /\ sensitivity_results[i].npv = NpvCell(r.npv)

\* C5: each sweep runs to completion and produces exactly one row per
\* candidate, in the candidates' order, each row holding its candidate and the
\* metrics computed for it; an undefined IRR neither aborts the sweep nor
\* drops or reorders a row.
C5_SweepsComplete ==
    /\ []SweepRows
    /\ (pc = "comparison") ~> (pc = "sensitivity")
    /\ (pc = "sensitivity") ~> (pc = "breakeven")

\* both sweeps done, with a row of undefined IRR before a row of defined IRR
C5_Witness ==
    /\ pc = "breakeven"
    /\ Len(comparison_results) = Len(comparison_prices)
    /\ Len(sensitivity_results) = Len(wacc_values)
    /\ \E i, j \in 1..Len(comparison_results) :
           /\ i < j
           /\ comparison_results[i].irr # NoneVal
           /\ comparison_results[i].irr.of.kind = "nan"
           /\ comparison_results[j].irr # NoneVal
           /\ comparison_results[j].irr.of.kind = "num"
====
